---- MODULE Spec2Model ----
(***************************************************************************)
(* Model of the MEXC streamers (mexc_multi_streamer.py,                    *)
(* mexc_bookticker_streamer.py and their runner scripts): the ingest      *)
(* callback running inside run_forever on the main thread, the per-symbol  *)
(* buffers and locks, the auto-save thread, save_data_to_csv and the       *)
(* shutdown path (connect's handler and main).                             *)
(*                                                                         *)
(* Prices and quantities are fixed-point numbers in units of 0.0001.       *)
(***************************************************************************)
EXTENDS Integers, Sequences, FiniteSets, TLC

\* -------------------------------------------------------------- bounds
\* Records accepted into buffers during one run (all symbols together).
MaxRecords == 3
\* Deals carried by one trade frame.
MaxDeals == 2
\* Sink writes that raise during one run.
MaxFailures == 1
\* Length of the longest text a book-ticker field carries.
MaxStrLen == 128
\* Unknown fields inserted into one book-ticker message.
MaxUnknown == 2
\* Length of the longest arbitrary byte sequence handed to the decoder.
MaxRawLen == 3

\* ----------------------------------------------------- configuration
\* self.symbols, in configuration order (already uppercase).
symbols == <<"A", "B">>

Symbols == {symbols[i] : i \in 1..Len(symbols)}

\* Symbols a frame may carry: the configured ones, a spelling that is not
\* configured, and none.
FrameSymbols == {"A", "B", "a", ""}

\* The programs (entry points) of the repository.
Entries == {"multi_main", "run_multi", "run_bookticker"}

\* The flush paths: the auto-save thread and the shutdown path (main thread).
Flushers == {"auto", "main"}

\* 0.001 in units of 0.0001.
Eps == 10

Abs(x) == IF x < 0 THEN -x ELSE x

\* ---------------------------------------------------------- validation
\* Deals a frame of the trade stream may carry (price, quantity in 0.0001).
Deals ==
  { [price |-> 1000000, quantity |-> 20000, tradeType |-> 1],
    [price |-> 0,       quantity |-> 20000, tradeType |-> 1],
    [price |-> 50005,   quantity |-> 50000, tradeType |-> 2] }

\* Snapshots a frame of the book-ticker stream may carry.
Tickers ==
  { [bidPrice |-> 10000, bidQuantity |-> 10000, askPrice |-> 10100, askQuantity |-> 10000],
    [bidPrice |-> 10000, bidQuantity |-> 0,     askPrice |-> 10100, askQuantity |-> 10000],
    [bidPrice |-> 0,     bidQuantity |-> 10000, askPrice |-> 10100, askQuantity |-> 10000] }

\* A mutant of ValidTrade: the degenerate price/quantity filter is missing
\* and only the quantity is tested for positivity.
ValidTradeLax(price, quantity) == quantity > 0

\* A mutant of ValidTrade: the difference is compared without abs().
ValidTradeNoAbs(price, quantity) ==
  /\ price > 0
  /\ quantity > 0
  /\ price # quantity
  /\ price - quantity > Eps

\* The "basic validation" of a deal.
ValidTrade(price, quantity) ==
  /\ price > 0
  /\ quantity > 0
  /\ price # quantity
  /\ Abs(price - quantity) > Eps

\* A mutant of ValidTicker: only the two prices are tested.
ValidTickerPricesOnly(t) == t.bidPrice > 0 /\ t.askPrice > 0

\* The validation of a book-ticker snapshot.
ValidTicker(t) ==
  /\ t.bidPrice > 0
  /\ t.askPrice > 0
  /\ t.bidQuantity > 0
  /\ t.askQuantity > 0

\* A mutant of Spread: the operands are exchanged.
SpreadReversed(t) ==
  IF t.askPrice > 0 /\ t.bidPrice > 0 THEN t.bidPrice - t.askPrice ELSE 0

\* spread = ask_price - bid_price if both are positive, else 0.0
Spread(t) ==
  IF t.askPrice > 0 /\ t.bidPrice > 0 THEN t.askPrice - t.bidPrice ELSE 0

\* spread_percent = spread / bid_price * 100 if bid_price > 0, else 0.0,
\* kept as the exact quotient num / den (percent).
SpreadPercent(t) ==
  IF t.bidPrice > 0 THEN [num |-> Spread(t) * 100, den |-> t.bidPrice]
  ELSE [num |-> 0, den |-> 1]

\* The book-ticker programs buffer snapshots, the others trades.
UsesTickers(e) == e = "run_bookticker"

\* Frames the transport may deliver to a program.
Frames(e) ==
  IF UsesTickers(e)
  THEN [symbol : FrameSymbols, ticker : Tickers]
  ELSE [symbol : FrameSymbols,
        deals : UNION {[1..n -> Deals] : n \in 1..MaxDeals}]

RECURSIVE SelectSeqBy(_, _)
\* The subsequence of the deals that pass validation, in frame order.
SelectSeqBy(ds, i) ==
  IF i > Len(ds) THEN <<>>
  ELSE (IF ValidTrade(ds[i].price, ds[i].quantity)
        THEN << ds[i] >> ELSE <<>>) \o SelectSeqBy(ds, i + 1)

\* _parse_protobuf_message of the multi streamer: the trades of a frame, each
\* carrying the frame's symbol; nothing when the frame names no symbol.
ParseTrades(frame) ==
  LET ok == SelectSeqBy(frame.deals, 1)
  IN IF frame.symbol = "" THEN <<>>
     ELSE [i \in 1..Len(ok) |->
             [price |-> ok[i].price, quantity |-> ok[i].quantity,
              trade_type |-> ok[i].tradeType, symbol |-> frame.symbol]]

\* _parse_protobuf_message of the book-ticker streamer: at most one record.
ParseTicker(frame) ==
  IF ValidTicker(frame.ticker)
  THEN << [bid_price |-> frame.ticker.bidPrice,
           bid_quantity |-> frame.ticker.bidQuantity,
           ask_price |-> frame.ticker.askPrice,
           ask_quantity |-> frame.ticker.askQuantity,
           spread |-> Spread(frame.ticker),
           spread_percent |-> SpreadPercent(frame.ticker),
           symbol |-> frame.symbol] >>
  ELSE <<>>

Parse(e, frame) == IF UsesTickers(e) THEN ParseTicker(frame) ELSE ParseTrades(frame)

\* The membership test `symbol and symbol in self.symbols`.
Routable(sym) == sym # "" /\ sym \in Symbols

\* trades_by_symbol[symbol] for the one symbol a frame carries: the parsed
\* records whose symbol is configured.
RECURSIVE GroupFor(_, _)
GroupFor(trades, i) ==
  IF i > Len(trades) THEN <<>>
  ELSE (IF Routable(trades[i].symbol) THEN << trades[i] >> ELSE <<>>)
       \o GroupFor(trades, i + 1)

\* ---------------------------------------------------------------- decoder
\* PublicAggreBookTickerV3Api_pb2.py. Bytes are numbers 0..255, a bytes
\* object is a sequence of them, and the Python position p names the element
\* p + 1 of the sequence. A decoded str is the sequence of its character
\* codes (ASCII only).

\* PublicAggreBookTickerV3Api.__init__: four empty strings.
NewBookTicker ==
  [bidPrice |-> <<>>, bidQuantity |-> <<>>, askPrice |-> <<>>, askQuantity |-> <<>>]

Pow2(n) == 2 ^ n

RECURSIVE ReadVarintFrom(_, _, _, _)
\* The while loop of _read_varint.
ReadVarintFrom(d, p, result, shift) ==
  IF p < Len(d)
  THEN LET byte == d[p + 1]
           r    == result + (byte % 128) * Pow2(shift)
       IN IF byte < 128 THEN << r, p + 1 >>
          ELSE ReadVarintFrom(d, p + 1, r, shift + 7)
  ELSE << result, p >>

\* A mutant of ReadVarint: only the first byte is read (no continuation).
ReadVarintOneByte(d, p) ==
  IF p < Len(d) THEN << d[p + 1] % 128, p + 1 >> ELSE << 0, p >>

\* _read_varint: (result, pos).
ReadVarint(d, p) == ReadVarintFrom(d, p, 0, 0)

\* A mutant of ReadFieldHeader: the key is looked at but not consumed.
ReadFieldHeaderPeek(d, p) ==
  LET v == ReadVarint(d, p)
  IN << v[1] \div 8, v[1] % 8, p >>

\* _read_field_header: (field_num, wire_type, pos).
ReadFieldHeader(d, p) ==
  LET v == ReadVarint(d, p)
  IN << v[1] \div 8, v[1] % 8, v[2] >>

\* bytes.decode('utf-8') succeeds: of the bytes the model uses, those below
\* 128 are characters and a lone byte of 128 or more is not valid UTF-8.
Utf8Ok(bs) == \A i \in 1..Len(bs) : bs[i] < 128

\* _read_string: (string, pos).
ReadString(d, p) ==
  LET v      == ReadVarint(d, p)
      length == v[1]
      q      == v[2]
  IN IF q + length > Len(d) THEN << <<>>, q >>
     ELSE LET string_data == SubSeq(d, q + 1, q + length)
          IN IF Utf8Ok(string_data) THEN << string_data, q + length >>
             ELSE << <<>>, q + length >>

\* A mutant of SkipField: a 64-bit field is skipped as if it had 4 bytes.
SkipFieldShort64(d, p, wire_type) ==
  IF wire_type = 0 THEN ReadVarint(d, p)[2]
  ELSE IF wire_type = 2 THEN LET v == ReadVarint(d, p) IN v[2] + v[1]
  ELSE IF wire_type = 1 THEN p + 4
  ELSE IF wire_type = 5 THEN p + 4
  ELSE p

\* _skip_field: the new pos.
SkipField(d, p, wire_type) ==
  IF wire_type = 0 THEN ReadVarint(d, p)[2]
  ELSE IF wire_type = 2 THEN LET v == ReadVarint(d, p) IN v[2] + v[1]
  ELSE IF wire_type = 1 THEN p + 8
  ELSE IF wire_type = 5 THEN p + 4
  ELSE p

\* One pass of the while loop of ParseFromString: [msg, pos] afterwards.
ParseField(d, p, m) ==
  LET h         == ReadFieldHeader(d, p)
      field_num == h[1]
      wire_type == h[2]
      q         == h[3]
      str       == ReadString(d, q)
  IN IF field_num = 1 THEN [msg |-> [m EXCEPT !.bidPrice = str[1]], pos |-> str[2]]
     ELSE IF field_num = 2 THEN [msg |-> [m EXCEPT !.bidQuantity = str[1]], pos |-> str[2]]
     ELSE IF field_num = 3 THEN [msg |-> [m EXCEPT !.askPrice = str[1]], pos |-> str[2]]
     ELSE IF field_num = 4 THEN [msg |-> [m EXCEPT !.askQuantity = str[1]], pos |-> str[2]]
     ELSE [msg |-> m, pos |-> SkipField(d, q, wire_type)]

RECURSIVE ParseFrom(_, _, _)
\* The while loop of ParseFromString from position p on: the message it
\* leaves.
ParseFrom(d, p, m) ==
  IF p < Len(d)
  THEN LET r == ParseField(d, p, m) IN ParseFrom(d, r.pos, r.msg)
  ELSE m

\* ------------------------------------------------------- text and numbers
\* The str whose UTF-8 bytes are bs, for the symbols the model uses
\* ("A", "B", "a", "Z"); anything else is not a modelled symbol.
SymbolText(bs) ==
  IF bs = << 65 >> THEN "A"
  ELSE IF bs = << 66 >> THEN "B"
  ELSE IF bs = << 97 >> THEN "a"
  ELSE IF bs = << 90 >> THEN "Z"
  ELSE ""

\* str.upper() on the modelled symbols.
Upper(sym) == IF sym = "a" THEN "A" ELSE sym

IsDigit(c) == c >= 48 /\ c <= 57

Pow10(n) == 10 ^ n

RECURSIVE ScanDecimal(_, _, _, _, _)
\* Reads digits with at most one point: acc is the number the digits spell,
\* nfrac the count of digits after the point (-1 before any point), nd the
\* count of digits. Any other character makes the text no number.
ScanDecimal(cs, i, acc, nfrac, nd) ==
  IF i > Len(cs)
  THEN [ok |-> nd > 0, acc |-> acc, nfrac |-> IF nfrac < 0 THEN 0 ELSE nfrac]
  ELSE IF IsDigit(cs[i])
  THEN ScanDecimal(cs, i + 1, acc * 10 + (cs[i] - 48),
                   IF nfrac < 0 THEN nfrac ELSE nfrac + 1, nd + 1)
  ELSE IF cs[i] = 46 /\ nfrac < 0
  THEN ScanDecimal(cs, i + 1, acc, 0, nd)
  ELSE [ok |-> FALSE, acc |-> 0, nfrac |-> 0]

\* float(text) for texts of digits, '.', and a leading '-': ok = FALSE is a
\* ValueError; val is the number in units of 0.0001 (digits beyond the fourth
\* decimal are cut off; the model's inputs have none).
Float(cs) ==
  LET neg  == cs # <<>> /\ cs[1] = 45
      body == IF neg THEN Tail(cs) ELSE cs
      r    == ScanDecimal(body, 1, 0, -1, 0)
      mag  == IF r.nfrac <= 4 THEN r.acc * Pow10(4 - r.nfrac)
              ELSE r.acc \div Pow10(r.nfrac - 4)
  IN IF r.ok THEN [ok |-> TRUE, val |-> IF neg THEN -mag ELSE mag]
     ELSE [ok |-> FALSE, val |-> 0]

\* `float(x) if x else 0.0`
FloatOrZero(cs) == IF cs = <<>> THEN [ok |-> TRUE, val |-> 0] ELSE Float(cs)

\* ------------------------------------------------------------ wire format
\* How a sender builds the frames the decoder reads.
RECURSIVE Varint(_)
\* Little-endian base-128, continuation bit on every byte but the last.
Varint(n) == IF n < 128 THEN << n >> ELSE << 128 + (n % 128) >> \o Varint(n \div 128)

\* key = fieldNumber << 3 | wireType
Key(num, wire) == Varint(num * 8 + wire)

\* A length-delimited field.
LenField(num, bs) == Key(num, 2) \o Varint(Len(bs)) \o bs

\* A field of a number the book-ticker message does not know: 5 is
\* length-delimited, 6 a two-byte varint, 8 a 64-bit value, 100 (a two-byte
\* key) length-delimited, 7 a 32-bit value.
UnknownField(num) ==
  IF num = 5 THEN LenField(5, << 120, 120, 120 >>)
  ELSE IF num = 6 THEN Key(6, 0) \o Varint(300)
  ELSE IF num = 8 THEN Key(8, 1) \o << 1, 2, 3, 4, 5, 6, 7, 8 >>
  ELSE IF num = 100 THEN LenField(100, << 10, 1, 49 >>)
  ELSE Key(7, 5) \o << 1, 2, 3, 4 >>

\* A field numbered 1..4 whose key names another wire type than
\* length-delimited: 11 is field 1 as the varint 2, 12 field 2 as a 32-bit
\* value, 13 field 3 as a 64-bit value, 14 field 4 as the varint 300.
OtherWireField(code) ==
  IF code = 11 THEN Key(1, 0) \o Varint(2)
  ELSE IF code = 12 THEN Key(2, 5) \o << 1, 2, 3, 4 >>
  ELSE IF code = 13 THEN Key(3, 1) \o << 1, 2, 3, 4, 5, 6, 7, 8 >>
  ELSE Key(4, 0) \o Varint(300)

\* One field of a book-ticker message: fields 1..4 carry vals[1..4]; 0 stands
\* for the bytes vals[1] as they are (no field structure).
TickerField(vals, num) ==
  IF num \in 1..4 THEN LenField(num, vals[num])
  ELSE IF num \in 11..14 THEN OtherWireField(num)
  ELSE IF num = 0 THEN vals[1]
  ELSE UnknownField(num)

RECURSIVE TickerBytesFrom(_, _, _)
TickerBytesFrom(vals, order, i) ==
  IF i > Len(order) THEN <<>>
  ELSE TickerField(vals, order[i]) \o TickerBytesFrom(vals, order, i + 1)

\* The book-ticker message carrying the four texts vals, fields in `order`.
TickerBytes(vals, order) == TickerBytesFrom(vals, order, 1)

\* The positions at which a field of the message ends (or the message starts).
FieldEnds(vals, order) ==
  {Len(TickerBytesFrom(vals, SubSeq(order, 1, n), 1)) : n \in 0..Len(order)}

\* --------------------------------------------------------------- envelope
\* PushDataV3ApiWrapper: the envelope around a payload. Its decoder is not
\* among the source files; it is modelled as the frame decoder and message
\* mapper are specified: fields are walked left to right, unknown fields are
\* skipped, and a varint or payload that would read past the end of the
\* frame fails the whole frame (Truncated).
SymbolFieldNumber == 3
SendTimeFieldNumber == 6
BookTickerFieldNumber == 315

\* One top-level field of an envelope.
EnvelopeField(name, symbol, payload) ==
  IF name = "symbol" THEN LenField(SymbolFieldNumber, symbol)
  ELSE IF name = "sendTime" THEN Key(SendTimeFieldNumber, 0) \o Varint(1)
  ELSE LenField(BookTickerFieldNumber, payload)

RECURSIVE EnvelopeBytesFrom(_, _, _, _)
EnvelopeBytesFrom(eorder, symbol, payload, i) ==
  IF i > Len(eorder) THEN <<>>
  ELSE EnvelopeField(eorder[i], symbol, payload)
       \o EnvelopeBytesFrom(eorder, symbol, payload, i + 1)

\* The frame carrying symbol and payload, top-level fields in `eorder`.
EnvelopeBytes(eorder, symbol, payload) == EnvelopeBytesFrom(eorder, symbol, payload, 1)

RECURSIVE StrictVarintFrom(_, _, _, _)
\* A varint that must end inside the frame.
StrictVarintFrom(d, p, result, shift) ==
  IF p >= Len(d) THEN [ok |-> FALSE, val |-> 0, pos |-> p]
  ELSE LET byte == d[p + 1]
           r    == result + (byte % 128) * Pow2(shift)
       IN IF byte < 128 THEN [ok |-> TRUE, val |-> r, pos |-> p + 1]
          ELSE StrictVarintFrom(d, p + 1, r, shift + 7)

Truncated == [ok |-> FALSE, fields |-> <<>>]

NoMoreFields == [ok |-> TRUE, fields |-> <<>>]

FieldThen(f, rest) ==
  IF rest.ok THEN [ok |-> TRUE, fields |-> << f >> \o rest.fields] ELSE Truncated

RECURSIVE FieldsFrom(_, _, _)
\* decode(frame): the fields from position p on. A varint or a payload that
\* would read past the end of the frame gives Truncated when `strict`;
\* otherwise decoding stops there and a cut payload is kept as far as it goes.
FieldsFrom(d, p, strict) ==
  IF p >= Len(d) THEN NoMoreFields
  ELSE LET k == StrictVarintFrom(d, p, 0, 0)
           num  == k.val \div 8
           wire == k.val % 8
           v == StrictVarintFrom(d, k.pos, 0, 0)
           n == IF wire = 1 THEN 8 ELSE 4
           short == IF strict THEN Truncated ELSE NoMoreFields
       IN IF ~k.ok THEN short
          ELSE IF wire = 0
          THEN IF ~v.ok THEN short
               ELSE FieldThen([num |-> num, wire |-> wire, int |-> v.val, bytes |-> <<>>],
                              FieldsFrom(d, v.pos, strict))
          ELSE IF wire = 2
          THEN IF ~v.ok THEN short
               ELSE IF v.pos + v.val > Len(d)
               THEN IF strict THEN Truncated
                    ELSE [ok |-> TRUE,
                          fields |-> << [num |-> num, wire |-> wire, int |-> 0,
                                         bytes |-> SubSeq(d, v.pos + 1, Len(d))] >>]
               ELSE FieldThen([num |-> num, wire |-> wire, int |-> 0,
                               bytes |-> SubSeq(d, v.pos + 1, v.pos + v.val)],
                              FieldsFrom(d, v.pos + v.val, strict))
          ELSE IF (wire # 1 /\ wire # 5) \/ k.pos + n > Len(d) THEN short
          ELSE FieldThen([num |-> num, wire |-> wire, int |-> 0,
                          bytes |-> SubSeq(d, k.pos + 1, k.pos + n)],
                         FieldsFrom(d, k.pos + n, strict))

\* A mutant of EnvelopeFields: a frame cut short is not refused; what was
\* decoded before the cut, and the part of a cut payload, is used.
EnvelopeFieldsLoose(frame) == FieldsFrom(frame, 0, FALSE)

\* decode(frame) of a whole envelope.
EnvelopeFields(frame) == FieldsFrom(frame, 0, TRUE)

\* The last length-delimited field numbered num, if there is one.
LastField(fields, num) ==
  LET at == {i \in 1..Len(fields) : fields[i].num = num /\ fields[i].wire = 2}
  IN IF at = {} THEN [found |-> FALSE, bytes |-> <<>>]
     ELSE [found |-> TRUE,
           bytes |-> fields[CHOOSE i \in at : \A j \in at : j <= i].bytes]

\* wrapper.ParseFromString(data) and what the streamer reads of the wrapper:
\* ok = FALSE when decoding raises, symbol (a str), and the payload bytes of
\* publicAggreBookTicker when the frame carries one.
WrapperParse(frame) ==
  LET dec == EnvelopeFields(frame)
      sym == LastField(dec.fields, SymbolFieldNumber)
      pay == LastField(dec.fields, BookTickerFieldNumber)
  IN [ok |-> dec.ok, symbol |-> SymbolText(sym.bytes),
      has_payload |-> pay.found, payload |-> pay.bytes]

\* ----------------------------------------------------------------- inputs
RECURSIVE Zeros(_)
Zeros(n) == IF n = 0 THEN <<>> ELSE << 48 >> \o Zeros(n - 1)

\* "00...01", MaxStrLen characters: its length needs a two-byte varint.
LongOne == Zeros(MaxStrLen - 1) \o << 49 >>

\* bidPrice, bidQuantity, askPrice, askQuantity texts a sender may encode.
TickerVals ==
  { << << 49, 48, 48, 46, 48 >>, << 49, 46, 48 >>,          \* "100.0" "1.0"
       << 49, 48, 49, 46, 48 >>, << 49, 46, 48 >> >>,       \* "101.0" "1.0"
    << << 53, 46, 48 >>, << 50 >>, << 53, 46, 48 >>, << 49 >> >>,   \* "5.0" "2" "5.0" "1"
    << << 49, 48, 48 >>, <<>>, << 49, 48, 49 >>, << 49 >> >>,       \* "100" "" "101" "1"
    << << 48 >>, << 49 >>, << 49, 48, 49 >>, << 49 >> >>,           \* "0" "1" "101" "1"
    << << 49, 48, 48 >>, << 49 >>, << 45, 49 >>, << 49 >> >>,       \* "100" "1" "-1" "1"
    << << 120 >>, << 49 >>, << 49, 48, 49 >>, << 49 >> >>,          \* "x" "1" "101" "1"
    << LongOne, << 49 >>, << 49, 48, 49 >>, << 49 >> >> }           \* "0..01" "1" "101" "1"

\* Field orders of a book-ticker message: in number order, reversed, with an
\* unknown field after or between the known ones.
FieldOrders ==
  { << 1, 2, 3, 4 >>, << 4, 3, 2, 1 >>, << 1, 2, 3, 4, 5 >>,
    << 1, 2, 3, 4, 7 >>, << 1, 6, 2, 3, 4 >> }

\* No frame was built (the programs of Spec take frames already decoded).
NoInput ==
  [mode |-> "none", vals |-> <<>>, order |-> <<>>, cut |-> 0,
   symbol |-> <<>>, eorder |-> <<>>, deals |-> <<>>]

\* A book-ticker message cut after `cut` bytes, handed to ParseFromString.
DecoderInputs ==
  { [mode |-> "decoder", vals |-> v, order |-> o, cut |-> c,
     symbol |-> <<>>, eorder |-> <<>>, deals |-> <<>>] :
      v \in TickerVals, o \in FieldOrders, c \in 0..MaxStrLen + 32 }

\* Numbers of fields the book-ticker message does not know, one or more of
\* each wire type.
Unknowns == {5, 6, 7, 8, 100}

InsertAt(o, i, x) == SubSeq(o, 1, i) \o << x >> \o SubSeq(o, i + 1, Len(o))

RECURSIVE WithUnknowns(_)
\* The field orders 1, 2, 3, 4 with up to n unknown fields inserted at any
\* field boundary.
WithUnknowns(n) ==
  IF n = 0 THEN { << 1, 2, 3, 4 >> }
  ELSE LET less == WithUnknowns(n - 1)
       IN less \cup UNION { { InsertAt(o, i, u) : i \in 0..Len(o), u \in Unknowns } :
                             o \in less }

\* The texts of the messages unknown fields are inserted into.
InsertVals ==
  { << << 49, 48, 48, 46, 48 >>, << 49, 46, 48 >>,
       << 49, 48, 49, 46, 48 >>, << 49, 46, 48 >> >>,
    << << 49, 48, 48 >>, <<>>, << 49, 48, 49 >>, << 49 >> >> }

\* A whole book-ticker message with unknown fields inserted.
InsertInputs ==
  { [mode |-> "insert", vals |-> v, order |-> o,
     cut |-> Len(TickerBytes(v, o)),
     symbol |-> <<>>, eorder |-> <<>>, deals |-> <<>>] :
      v \in InsertVals, o \in WithUnknowns(MaxUnknown) }

\* Fields of a well-formed message: known and unknown numbers, every wire
\* type.
WireFields == {1, 2, 11, 12, 13, 14} \cup Unknowns

WireVals == << << 49, 48, 48 >>, << 49 >>, <<>>, <<>> >>

\* A whole well-formed message of one to three fields.
WireInputs ==
  { [mode |-> "wire", vals |-> WireVals, order |-> o,
     cut |-> Len(TickerBytes(WireVals, o)),
     symbol |-> <<>>, eorder |-> <<>>, deals |-> <<>>] :
      o \in UNION {[1..n -> WireFields] : n \in 1..3} }

\* Bytes an arbitrary frame is made of: keys of every wire type (0x08, 0x0A,
\* 0x29..0x2F for field 5 with wire types 1..7), bytes with the continuation
\* bit set, and small values.
RawBytes == {0, 1, 8, 10, 41, 42, 43, 44, 45, 46, 47, 128, 255}

\* An arbitrary byte sequence handed to ParseFromString.
RawInputs ==
  { [mode |-> "raw", vals |-> << r, <<>>, <<>>, <<>> >>, order |-> << 0 >>,
     cut |-> Len(r), symbol |-> <<>>, eorder |-> <<>>, deals |-> <<>>] :
      r \in UNION {[1..n -> RawBytes] : n \in 0..MaxRawLen} }

\* The bytes of the whole message an input was built from, and of the input.
FullBytes(g) == TickerBytes(g.vals, g.order)
CutBytes(g) == SubSeq(FullBytes(g), 1, g.cut)

\* Texts of a book-ticker message of ordinary length.
ShortVals == {v \in TickerVals : \A i \in 1..4 : Len(v[i]) < 10}

\* Orders of the top-level fields of an envelope.
EnvelopeOrders ==
  { << "symbol", "sendTime", "payload" >>, << "symbol", "payload", "sendTime" >>,
    << "payload", "symbol" >> }

\* A book-ticker frame cut after `cut` bytes, followed by the whole frame.
TickerInputs ==
  { [mode |-> "ticker", vals |-> v, order |-> o, cut |-> c,
     symbol |-> y, eorder |-> e, deals |-> <<>>] :
      v \in ShortVals,
      o \in {<< 1, 2, 3, 4 >>, << 1, 2, 3, 4, 5 >>, << 1, 2, 3 >>},
      c \in 0..48, y \in {<< 65 >>, << 97 >>, << 90 >>}, e \in EnvelopeOrders }

\* price and quantity texts of a deal. A pair whose difference is exactly
\* 0.001 is left out: binary rounding of the two floats decides it.
DealTexts ==
  { << << 49, 48, 48, 46, 48 >>, << 50, 46, 48 >> >>,          \* "100.0" "2.0"
    << << 53, 46, 48 >>, << 53, 46, 48 >> >>,                  \* "5.0" "5.0"
    << << 53, 46, 48, 48, 48, 53 >>, << 53, 46, 48 >> >>,      \* "5.0005" "5.0"
    << << 53, 46, 48 >>, << 53, 46, 48, 48, 48, 53 >> >>,      \* "5.0" "5.0005"
    << << 53, 46, 48, 48, 49, 49 >>, << 53, 46, 48 >> >>,      \* "5.0011" "5.0"
    << << 53, 46, 48 >>, << 53, 46, 48, 48, 49, 49 >> >>,      \* "5.0" "5.0011"
    << << 48 >>, << 50, 46, 48 >> >>,                          \* "0" "2.0"
    << << 49, 48, 48, 46, 48 >>, << 48 >> >>,                  \* "100.0" "0"
    << << 45, 49 >>, << 50, 46, 48 >> >>,                      \* "-1" "2.0"
    << << 120 >>, << 50, 46, 48 >> >>,                         \* "x" "2.0"
    << <<>>, << 50, 46, 48 >> >> }                             \* "" "2.0"

\* Deals as the wrapper of a trade frame holds them: every pair of texts as a
\* BUY, and two acceptable pairs with the other trade types.
DealInputs ==
  { [price |-> t[1], quantity |-> t[2], tradeType |-> 1] : t \in DealTexts }
  \cup { [price |-> << 49, 48, 48, 46, 48 >>, quantity |-> << 50, 46, 48 >>,
          tradeType |-> k] : k \in {0, 2, 3} }

\* A trade frame: the decoder of its envelope and of its deals is not among
\* the source files, so the frame is given as the wrapper it decodes to.
TradeInputs ==
  { [mode |-> "trades", vals |-> <<>>, order |-> <<>>, cut |-> 0,
     symbol |-> y, eorder |-> <<>>, deals |-> d] :
      y \in {<< 65 >>, << 97 >>, << 90 >>, <<>>},
      d \in UNION {[1..n -> DealInputs] : n \in 1..MaxDeals} }

\* The whole frame of a book-ticker input.
FullFrame(g) == EnvelopeBytes(g.eorder, g.symbol, FullBytes(g))

\* ---------------------------------------------------------- text messages
\* A message the transport delivers as str, by what _on_message looks at:
\* whether json.loads gives an object, another value (a number) or raises,
\* whether the object has the key 'code', what its 'msg' is, and whether the
\* text has more than 100 characters.
TextMessages ==
  { [json |-> "object", code |-> c, msg |-> m, long |-> l] :
      c \in BOOLEAN, m \in {"PONG", "other"}, l \in BOOLEAN }
  \cup { [json |-> "object", code |-> TRUE, msg |-> "absent", long |-> TRUE],
         [json |-> "number", code |-> FALSE, msg |-> "absent", long |-> FALSE],
         [json |-> "invalid", code |-> FALSE, msg |-> "absent", long |-> TRUE] }

\* PING messages the model follows.
MaxPings == 2

\* No text message is being handled.
NoMessage == [json |-> "none", code |-> FALSE, msg |-> "absent", long |-> FALSE]

\* A mutant of IsSubscriptionResponse: the test is missing.
IsSubscriptionResponseNever(m) == FALSE

\* `'code' in data and 'msg' in data`
IsSubscriptionResponse(m) == m.code /\ m.msg # "absent"

\* `data.get('msg') == 'PONG'`
IsPong(m) == m.msg = "PONG"

\* What _on_message does with a str: "return" from one of the two tests on
\* the decoded object, "raise" when a test raises on a value that is no
\* object (the outer except ends the callback), "parse" when the text goes
\* on to _parse_protobuf_message (more than 100 characters), else "ignore".
TextOutcome(m) ==
  IF m.json = "object" /\ (IsSubscriptionResponse(m) \/ IsPong(m)) THEN "return"
  ELSE IF m.json = "number" THEN "raise"
  ELSE IF m.long THEN "parse"
  ELSE "ignore"

\* ---------------------------------------------------------------- state
VARIABLES
  entry,         \* which program runs
  mpc,           \* main thread: position in main / connect / disconnect
  ipc,           \* ingest callback (_on_message) position
  isym,          \* symbol whose group _on_message is processing
  pending,       \* symbol_trades not yet handed to _process_trade
  apc,           \* auto-save thread position
  fpc,           \* per flush path: position inside save_data_to_csv
  fidx,          \* per flush path: index into self.symbols of the loop
  is_running,
  is_connected,
  buffers,       \* trade_data_buffers / ticker_data_buffers
  buffer_locks,  \* holder of each threading.Lock, or "free"
  totals,        \* total_trades / total_updates
  csv_files,     \* rows appended to each symbol's CSV file
  save_due,      \* should_save_data(): now - last_save_time >= save_interval
  nextId,        \* history: sequence number of the next accepted record
  log,           \* history: per symbol, the records appended, in order
  failures,      \* history: sink writes that raised
  failed_ids,    \* history: records that were in a batch whose write raised
  dropped,       \* history: some frame held a rejected or unroutable record
  shutdown_passes, \* history: save_data_to_csv calls made by disconnect
  frames,        \* transport frames not yet delivered to _on_message
  data,          \* ParseFromString: the bytes being decoded
  pos,           \* ParseFromString: the position in data
  msg,           \* PublicAggreBookTickerV3Api: the four string fields
  dpc,           \* ParseFromString: "off", "loop" or "true" (returned True)
  passes,        \* history: passes of the while loop of ParseFromString
  ppc,           \* ping thread position
  message,       \* the str _on_message is handling, or NoMessage
  text_outcome,  \* history: what _on_message did with the last str
  pings,         \* history: PING messages sent
  wrote,         \* history: per flush path, the records its pass has written,
                 \* kept while a pass that ran at the same time is not over
  given          \* history: what the frames were built from

vars == << entry, mpc, ipc, isym, pending, apc, fpc, fidx, is_running,
           is_connected, buffers, buffer_locks, totals, csv_files, save_due,
           nextId, log, failures, failed_ids, dropped, shutdown_passes,
           frames, data, pos, msg, dpc, passes, given,
           ppc, message, text_outcome, pings, wrote >>

sessionVars == << ppc, message, text_outcome, pings >>

decoderVars == << frames, data, pos, msg, dpc, passes, given >>

ingestVars == << ipc, isym, pending >>
histVars == << nextId, log, failures, failed_ids, dropped, shutdown_passes >>

\* __init__: empty buffer, free lock and zero counter per symbol; the CSV
\* files hold only their header; last_save_time = now. Once the program
\* runs, the ping thread has made its loop test before _on_open and ended.
ProgramState(m, running, a) ==
  /\ mpc = m
  /\ ipc = "idle"
  /\ isym = ""
  /\ pending = <<>>
  /\ apc = a
  /\ fpc = [f \in Flushers |-> "none"]
  /\ fidx = [f \in Flushers |-> 1]
  /\ is_running = running
  /\ is_connected = running
  /\ buffers = [s \in Symbols |-> <<>>]
  /\ buffer_locks = [s \in Symbols |-> "free"]
  /\ totals = [s \in Symbols |-> 0]
  /\ csv_files = [s \in Symbols |-> <<>>]
  /\ save_due = FALSE
  /\ nextId = 1
  /\ log = [s \in Symbols |-> <<>>]
  /\ failures = 0
  /\ failed_ids = {}
  /\ dropped = FALSE
  /\ shutdown_passes = 0
  /\ ppc = IF running THEN "dead" ELSE "unstarted"
  /\ message = NoMessage
  /\ text_outcome = "none"
  /\ pings = 0
  /\ wrote = [f \in Flushers |-> {}]

\* The state __init__ leaves.
Constructed == ProgramState("init", FALSE, "unstarted")

\* The state once connect() has started the threads and _on_open has run:
\* run_forever delivers frames.
Receiving == ProgramState("run", TRUE, "sleep")

Init ==
  /\ entry \in Entries
  /\ Constructed
  /\ frames = <<>>
  /\ data = <<>>
  /\ pos = 0
  /\ msg = NewBookTicker
  /\ dpc = "off"
  /\ passes = 0
  /\ given = NoInput

Alive == mpc # "exited"

\* sum(len(buffer) for symbol in self.symbols)
RECURSIVE TotalBuffered(_)
TotalBuffered(i) ==
  IF i > Len(symbols) THEN 0 ELSE Len(buffers[symbols[i]]) + TotalBuffered(i + 1)

\* A mutant of TargetBuffer: every record lands in the first symbol's buffer.
TargetBufferFirst(symbol) == symbols[1]

\* The buffer a record of the group keyed `symbol` is appended to:
\* self.trade_data_buffers[symbol] / self.ticker_data_buffers[symbol].
TargetBuffer(symbol) == symbol

\* A mutant of LockOf: one guard shared by all symbols.
LockOfGlobal(symbol) == symbols[1]

\* The guard taken for a symbol: self.buffer_locks[symbol], one per symbol.
LockOf(symbol) == symbol

\* A mutant of TradeTypeStr: only trade type 2 is labelled SELL.
TradeTypeStrSellIsTwo(trade_type) == IF trade_type = 2 THEN "SELL" ELSE "BUY"

\* 'BUY' if trade.get('trade_type') == 1 else 'SELL'
TradeTypeStr(trade_type) == IF trade_type = 1 THEN "BUY" ELSE "SELL"

\* data_row as _process_trade / _process_ticker_data build it (id is history).
DataRow(e, trade, symbol, id) ==
  IF UsesTickers(e)
  THEN [id |-> id, symbol |-> symbol,
        bid_price |-> trade.bid_price, bid_quantity |-> trade.bid_quantity,
        ask_price |-> trade.ask_price, ask_quantity |-> trade.ask_quantity,
        spread |-> trade.spread, spread_percent |-> trade.spread_percent,
        event_type |-> "spot@public.aggre.bookTicker.v3.api.pb@100ms"]
  ELSE [id |-> id, symbol |-> trade.symbol,
        price |-> trade.price, quantity |-> trade.quantity,
        trade_type |-> trade.trade_type,
        trade_type_str |-> TradeTypeStr(trade.trade_type),
        event_type |-> "spot@public.aggre.deals.v3.api.pb@100ms"]

\* History only: whether a frame holds a record that validation rejects or
\* names a symbol that is not configured.
Rejects(e, frame) ==
  \/ frame.symbol \notin Symbols
  \/ IF UsesTickers(e)
     THEN \E x \in {frame.ticker.bidPrice, frame.ticker.bidQuantity,
                    frame.ticker.askPrice, frame.ticker.askQuantity} : x <= 0
     ELSE \E i \in 1..Len(frame.deals) :
            \/ frame.deals[i].price <= 0
            \/ frame.deals[i].quantity <= 0
            \/ Abs(frame.deals[i].price - frame.deals[i].quantity) <= Eps

\* ------------------------------------------------------------ main thread
\* connect(): is_running = True, the background threads start (the auto-save
\* thread passes its loop test and sleeps), run_forever begins.
Connect ==
  /\ mpc = "init"
  /\ mpc' = "run"
  /\ is_running' = TRUE
  /\ apc' = "sleep"
  /\ ppc' = "test"
  /\ UNCHANGED << entry, decoderVars, message, text_outcome, pings, wrote, ingestVars, fpc, fidx, is_connected, buffers,
                  buffer_locks, totals, csv_files, save_due, histVars >>

\* _on_open: the connection is up.
OnOpen ==
  /\ mpc = "run" /\ ipc = "idle" /\ ~is_connected
  /\ is_connected' = TRUE
  /\ UNCHANGED << entry, decoderVars, sessionVars, wrote, mpc, ingestVars, apc, fpc, fidx, is_running, buffers,
                  buffer_locks, totals, csv_files, save_due, histVars >>

\* _on_message on a binary frame: parse, keep the records whose symbol is
\* configured, and go on to take that symbol's lock.
Handle(frame) ==
  LET trades == Parse(entry, frame)
      group  == GroupFor(trades, 1)
  IN /\ nextId + Len(group) <= MaxRecords + 1
     /\ dropped' = (dropped \/ Rejects(entry, frame))
     /\ IF group = <<>>
        THEN ipc' = "idle" /\ isym' = "" /\ pending' = <<>>
        ELSE /\ ipc' = "lock"
             /\ isym' = frame.symbol
             /\ pending' = group

\* The transport delivers a frame to _on_message.
OnMessage ==
  /\ mpc = "run" /\ ipc = "idle" /\ is_connected
  /\ nextId <= MaxRecords
  /\ \E frame \in Frames(entry) : Handle(frame)
  /\ UNCHANGED << entry, decoderVars, sessionVars, wrote, mpc, apc, fpc, fidx, is_running, is_connected,
                  buffers, buffer_locks, totals, csv_files, save_due, nextId,
                  log, failures, failed_ids, shutdown_passes >>

\* with self.buffer_locks[symbol]: blocks while the lock is held.
IngestAcquire ==
  /\ mpc = "run" /\ ipc = "lock"
  /\ buffer_locks[LockOf(isym)] = "free"
  /\ buffer_locks' = [buffer_locks EXCEPT ![LockOf(isym)] = "ingest"]
  /\ ipc' = "append"
  /\ UNCHANGED << entry, decoderVars, sessionVars, wrote, mpc, isym, pending, apc, fpc, fidx, is_running,
                  is_connected, buffers, totals, csv_files, save_due, histVars >>

\* _process_trade / _process_ticker_data: build the row, append it, count it.
ProcessTrade ==
  /\ mpc = "run" /\ ipc = "append" /\ pending # <<>>
  /\ LET b   == TargetBuffer(isym)
         row == DataRow(entry, Head(pending), isym, nextId)
     IN /\ buffers' = [buffers EXCEPT ![b] = Append(@, row)]
        /\ totals' = [totals EXCEPT ![b] = @ + 1]
        /\ log' = [log EXCEPT ![b] = Append(@, row)]
  /\ nextId' = nextId + 1
  /\ pending' = Tail(pending)
  /\ UNCHANGED << entry, decoderVars, sessionVars, wrote, mpc, ipc, isym, apc, fpc, fidx, is_running,
                  is_connected, buffer_locks, csv_files, save_due, failures,
                  failed_ids, dropped, shutdown_passes >>

\* The end of the with block: the lock is released, the callback returns.
IngestRelease ==
  /\ mpc = "run" /\ ipc = "append" /\ pending = <<>>
  /\ buffer_locks' = [buffer_locks EXCEPT ![LockOf(isym)] = "free"]
  /\ ipc' = "idle"
  /\ isym' = ""
  /\ UNCHANGED << entry, decoderVars, sessionVars, wrote, mpc, pending, apc, fpc, fidx, is_running,
                  is_connected, buffers, totals, csv_files, save_due, histVars >>

\* run_forever stops: the connection closed or the library swallowed an
\* interrupt ("returned"), a KeyboardInterrupt came out of it, or another
\* exception did. An interrupt may arrive while _on_message runs; the with
\* block then releases the lock it holds and the rest of the frame is dropped.
RunForeverEnds(outcome) ==
  /\ mpc = "run"
  /\ outcome = "Exception" => ipc = "idle"
  /\ ipc' = "stopped"
  /\ pending' = <<>>
  /\ isym' = ""
  /\ buffer_locks' = [l \in Symbols |->
                        IF buffer_locks[l] = "ingest" THEN "free" ELSE buffer_locks[l]]
  /\ is_connected' = IF outcome = "returned" THEN FALSE ELSE is_connected
  /\ mpc' = IF outcome = "KeyboardInterrupt" THEN "disc1" ELSE "after_connect"
  /\ message' = NoMessage
  /\ UNCHANGED << entry, decoderVars, ppc, text_outcome, pings, wrote, apc, fpc, fidx, is_running, buffers, totals,
                  csv_files, save_due, histVars >>

\* Where the main thread continues after a disconnect() call returns.
MainAfter(m) == IF m \in {"disc1", "save1"} THEN "after_connect" ELSE "exited"

\* Whether the program's main() calls client.disconnect() in a finally
\* clause: only mexc_multi_streamer.main does.
MainFinally(e) == e = "multi_main"

\* connect() has returned or raised into main(): main's finally clause, if
\* it has one, calls disconnect(); then the process exits and its daemon
\* threads die with it.
AfterConnect ==
  /\ mpc = "after_connect"
  /\ mpc' = IF MainFinally(entry) THEN "disc2" ELSE "exited"
  /\ UNCHANGED << entry, decoderVars, sessionVars, wrote, ingestVars, apc, fpc, fidx, is_running, is_connected,
                  buffers, buffer_locks, totals, csv_files, save_due, histVars >>

\* disconnect(): clear the flags, close the socket, and call
\* save_data_to_csv() if any buffer holds a record.
Disconnect ==
  /\ mpc \in {"disc1", "disc2"}
  /\ is_running' = FALSE
  /\ is_connected' = FALSE
  /\ IF TotalBuffered(1) > 0
     THEN /\ mpc' = IF mpc = "disc1" THEN "save1" ELSE "save2"
          /\ fpc' = [fpc EXCEPT !["main"] = "lock"]
          /\ fidx' = [fidx EXCEPT !["main"] = 1]
          /\ shutdown_passes' = shutdown_passes + 1
          /\ wrote' = [wrote EXCEPT !["main"] = {}]
     ELSE /\ mpc' = MainAfter(mpc)
          /\ UNCHANGED << fpc, fidx, shutdown_passes, wrote >>
  /\ UNCHANGED << entry, decoderVars, sessionVars, ingestVars, apc, buffers, buffer_locks, totals,
                  csv_files, save_due, nextId, log, failures, failed_ids,
                  dropped >>

\* ------------------------------------------------------- save_data_to_csv
\* csv_rows: one row per buffered record, in buffer order. The id is history;
\* the cells are symbol, the numeric fields, and event_type.
CsvRow(e, r) ==
  IF UsesTickers(e)
  THEN [id |-> r.id,
        cells |-> << r.symbol, r.bid_price, r.bid_quantity, r.ask_price,
                     r.ask_quantity, r.spread, r.spread_percent, r.event_type >>]
  ELSE [id |-> r.id,
        cells |-> << r.symbol, r.price, r.quantity, r.trade_type,
                     r.trade_type_str, r.event_type >>]

\* A mutant of CsvRows: the loop over the buffer starts at its second record.
CsvRowsSkipFirst(e, buf) == [i \in 1..(Len(buf) - 1) |-> CsvRow(e, buf[i + 1])]

CsvRows(e, buf) == [i \in 1..Len(buf) |-> CsvRow(e, buf[i])]

\* The symbol column of a CSV row.
RowSymbol(row) == row.cells[1]

\* while self.is_running: the auto-save thread sleeps again, or ends.
AutoLoop == IF is_running THEN "sleep" ELSE "dead"

\* A mutant of SaveDueAfter: last_save_time is set on the failure path too.
SaveDueAfterAny(ok) == FALSE

\* `self.last_save_time = datetime.now()` is the last statement of the try
\* block of save_data_to_csv: a cycle that raised leaves last_save_time.
SaveDueAfter(ok) == IF ok THEN FALSE ELSE save_due

\* save_data_to_csv returns to its caller: the auto-save loop or disconnect().
\* `ok` says whether the loop ran to its end (last_save_time = now) or the
\* except clause was taken.
Return(f, ok) ==
  /\ fpc' = [fpc EXCEPT ![f] = "none"]
  /\ fidx' = [fidx EXCEPT ![f] = 1]
  /\ save_due' = SaveDueAfter(ok)
  /\ IF f = "main"
     THEN mpc' = MainAfter(mpc) /\ UNCHANGED apc
     ELSE apc' = AutoLoop /\ UNCHANGED mpc

\* The other flush path.
Other(f) == IF f = "auto" THEN "main" ELSE "auto"

\* History: the pass of f has written the records ids; when the pass ends
\* and no pass of the other path is running, nothing is left to compare.
Wrote(f, ids, ends) ==
  IF ends /\ fpc[Other(f)] = "none" THEN [g \in Flushers |-> {}]
  ELSE [wrote EXCEPT ![f] = @ \cup ids]

\* A mutant of HasRows: the emptiness test is missing.
HasRowsAlways(buf) == TRUE

\* `if self.trade_data_buffers[symbol]:` -- a non-empty buffer.
HasRows(buf) == buf # <<>>

\* A mutant of LockOnRaise: the lock is taken with acquire() and released
\* only on the success path, so an exception leaves it held.
LockOnRaiseHeld(f) == f

\* The holder of the symbol's lock after an exception has left the
\* `with self.buffer_locks[symbol]:` block: the block releases it.
LockOnRaise(f) == "free"

\* A mutant of LockOnExit: the lock is not released when the block ends.
LockOnExitHeld(f) == f

\* The holder of the symbol's lock once the `with self.buffer_locks[symbol]:`
\* block of save_data_to_csv has ended normally: the block releases it.
LockOnExit(f) == "free"

\* The for loop moves on to the next symbol, or ends.
NextSymbol(f) ==
  IF fidx[f] = Len(symbols)
  THEN Return(f, TRUE)
  ELSE /\ fpc' = [fpc EXCEPT ![f] = "lock"]
       /\ fidx' = [fidx EXCEPT ![f] = @ + 1]
       /\ UNCHANGED << mpc, apc, save_due >>

\* with self.buffer_locks[symbol]: if the buffer is empty the block does
\* nothing; otherwise the rows are built and the file is opened, with the
\* lock held.
FlushLock(f) ==
  /\ Alive /\ fpc[f] = "lock"
  /\ LET s == symbols[fidx[f]]
     IN /\ buffer_locks[LockOf(s)] = "free"
        /\ IF HasRows(buffers[s])
           THEN /\ buffer_locks' = [buffer_locks EXCEPT ![LockOf(s)] = f]
                /\ fpc' = [fpc EXCEPT ![f] = "write"]
                /\ UNCHANGED << mpc, apc, fidx, save_due >>
           ELSE /\ NextSymbol(f)
                /\ UNCHANGED buffer_locks
  /\ wrote' = Wrote(f, {}, ~HasRows(buffers[symbols[fidx[f]]]) /\ fidx[f] = Len(symbols))
  /\ UNCHANGED << entry, decoderVars, sessionVars, ingestVars, is_running, is_connected, buffers, totals,
                  csv_files, histVars >>

\* open / writerows / close succeed: the rows are in the file, the buffer is
\* cleared, the lock is released.
SinkWriteOk(f) ==
  /\ Alive /\ fpc[f] = "write"
  /\ LET s == symbols[fidx[f]]
     IN /\ csv_files' = [csv_files EXCEPT ![s] = @ \o CsvRows(entry, buffers[s])]
        /\ buffers' = [buffers EXCEPT ![s] = <<>>]
        /\ buffer_locks' = [buffer_locks EXCEPT ![LockOf(s)] = LockOnExit(f)]
        /\ wrote' = Wrote(f, {buffers[s][i].id : i \in 1..Len(buffers[s])},
                          fidx[f] = Len(symbols))
  /\ NextSymbol(f)
  /\ UNCHANGED << entry, decoderVars, sessionVars, ingestVars, is_running, is_connected, totals, histVars >>

\* open, writerows or close raises after k rows reached the file: the lock is
\* released, the buffer is left as it is, the except clause ends the cycle.
SinkWriteFail(f) ==
  /\ Alive /\ fpc[f] = "write"
  /\ failures < MaxFailures
  /\ LET s == symbols[fidx[f]]
         rows == CsvRows(entry, buffers[s])
     IN /\ \E k \in 0..Len(rows) :
             /\ csv_files' = [csv_files EXCEPT ![s] = @ \o SubSeq(rows, 1, k)]
             /\ wrote' = Wrote(f, {rows[i].id : i \in 1..k}, TRUE)
        /\ buffer_locks' = [buffer_locks EXCEPT ![LockOf(s)] = LockOnRaise(f)]
        /\ failed_ids' = failed_ids \cup {buffers[s][i].id : i \in 1..Len(buffers[s])}
  /\ failures' = failures + 1
  /\ Return(f, FALSE)
  /\ UNCHANGED << entry, decoderVars, sessionVars, ingestVars, is_running, is_connected, buffers,
                  totals, nextId, log, dropped, shutdown_passes >>

\* ------------------------------------------------------ auto-save thread
\* After time.sleep(60): if should_save_data() and some buffer holds a
\* record, call save_data_to_csv().
AutoWake ==
  /\ Alive /\ apc = "sleep"
  /\ IF save_due /\ TotalBuffered(1) > 0
     THEN /\ apc' = "saving"
          /\ fpc' = [fpc EXCEPT !["auto"] = "lock"]
          /\ fidx' = [fidx EXCEPT !["auto"] = 1]
          /\ wrote' = [wrote EXCEPT !["auto"] = {}]
     ELSE /\ apc' = AutoLoop
          /\ UNCHANGED << fpc, fidx, wrote >>
  /\ UNCHANGED << entry, decoderVars, sessionVars, mpc, ingestVars, is_running, is_connected, buffers,
                  buffer_locks, totals, csv_files, save_due, histVars >>

\* Wall-clock time passes: save_interval has elapsed since last_save_time.
TimePasses ==
  /\ Alive /\ ~save_due
  /\ save_due' = TRUE
  /\ UNCHANGED << entry, decoderVars, sessionVars, wrote, mpc, ingestVars, apc, fpc, fidx, is_running,
                  is_connected, buffers, buffer_locks, totals, csv_files, histVars >>

Next ==
  \/ Connect
  \/ OnOpen
  \/ OnMessage
  \/ IngestAcquire
  \/ ProcessTrade
  \/ IngestRelease
  \/ \E o \in {"returned", "KeyboardInterrupt", "Exception"} : RunForeverEnds(o)
  \/ AfterConnect
  \/ Disconnect
  \/ \E f \in Flushers : FlushLock(f)
  \/ \E f \in Flushers : SinkWriteOk(f)
  \/ \E f \in Flushers : SinkWriteFail(f)
  \/ AutoWake
  \/ TimePasses

Spec == Init /\ [][Next]_vars

\* The program under the scheduling the code relies on: the clock advances,
\* the auto-save thread wakes from its sleep, gets a lock that stays free,
\* and a sink call that cannot fail any more returns; the callback of
\* run_forever ends the with block it is inside.
LiveSpec ==
  /\ Spec
  /\ WF_vars(TimePasses)
  /\ WF_vars(AutoWake)
  /\ WF_vars(FlushLock("auto"))
  /\ WF_vars(SinkWriteOk("auto"))
  /\ WF_vars(ProcessTrade)
  /\ WF_vars(IngestRelease)

\* ------------------------------------------ the connection and its threads
\* _ping_thread at `while self.is_running and self.is_connected:`.
PingTest ==
  /\ Alive /\ ppc = "test"
  /\ ppc' = IF is_running /\ is_connected THEN "sleep" ELSE "dead"
  /\ UNCHANGED << entry, decoderVars, message, text_outcome, pings, wrote, mpc, ingestVars,
                  apc, fpc, fidx, is_running, is_connected, buffers,
                  buffer_locks, totals, csv_files, save_due, histVars >>

\* After time.sleep(PING_INTERVAL_SECONDS): a PING is sent if the connection
\* is up, and the loop test comes again.
PingWake ==
  /\ Alive /\ ppc = "sleep"
  /\ is_connected => pings < MaxPings
  /\ pings' = IF is_connected THEN pings + 1 ELSE pings
  /\ ppc' = "test"
  /\ UNCHANGED << entry, decoderVars, message, text_outcome, wrote, mpc, ingestVars,
                  apc, fpc, fidx, is_running, is_connected, buffers,
                  buffer_locks, totals, csv_files, save_due, histVars >>

\* The transport delivers a str to _on_message: json.loads is tried.
OnText ==
  /\ mpc = "run" /\ ipc = "idle" /\ is_connected
  /\ \E m \in TextMessages : message' = m
  /\ ipc' = "json"
  /\ UNCHANGED << entry, decoderVars, ppc, text_outcome, pings, wrote, mpc, isym, pending,
                  apc, fpc, fidx, is_running, is_connected, buffers,
                  buffer_locks, totals, csv_files, save_due, histVars >>

\* The tests of _on_message on the decoded text: the callback returns, or
\* goes on to _parse_protobuf_message.
TextRoute ==
  /\ mpc = "run" /\ ipc = "json"
  /\ ipc' = IF TextOutcome(message) = "parse" THEN "parse" ELSE "idle"
  /\ message' = IF TextOutcome(message) = "parse" THEN message ELSE NoMessage
  /\ text_outcome' = TextOutcome(message)
  /\ UNCHANGED << entry, decoderVars, ppc, pings, wrote, mpc, isym, pending,
                  apc, fpc, fidx, is_running, is_connected, buffers,
                  buffer_locks, totals, csv_files, save_due, histVars >>

\* _parse_protobuf_message on a str: decoding raises, the except clause
\* returns no record and the callback returns.
ParseText ==
  /\ mpc = "run" /\ ipc = "parse"
  /\ ipc' = "idle"
  /\ message' = NoMessage
  /\ UNCHANGED << entry, decoderVars, ppc, text_outcome, pings, wrote, mpc, isym, pending,
                  apc, fpc, fidx, is_running, is_connected, buffers,
                  buffer_locks, totals, csv_files, save_due, histVars >>

\* The session: the main thread with the callbacks of run_forever, the ping
\* thread and the shutdown path, while the auto-save thread sleeps.
SessionNext ==
  \/ Connect
  \/ OnOpen
  \/ PingTest
  \/ PingWake
  \/ OnText
  \/ TextRoute
  \/ ParseText
  \/ OnMessage
  \/ IngestAcquire
  \/ ProcessTrade
  \/ IngestRelease
  \/ \E o \in {"returned", "KeyboardInterrupt", "Exception"} : RunForeverEnds(o)
  \/ AfterConnect
  \/ Disconnect
  \/ FlushLock("main")
  \/ SinkWriteOk("main")

\* Every thread that can take a step eventually takes one.
SessionSpec == Init /\ [][SessionNext]_vars /\ WF_vars(SessionNext)

\* ------------------------------------------------- frames, byte by byte
programVars == << entry, mpc, ipc, isym, pending, apc, fpc, fidx, is_running,
                  is_connected, buffers, buffer_locks, totals, csv_files,
                  save_due, histVars, sessionVars, wrote >>

\* ParseFromString is called on the bytes of an input.
DecoderInit ==
  /\ entry = "run_bookticker"
  /\ Constructed
  /\ given \in DecoderInputs \cup InsertInputs \cup WireInputs \cup RawInputs
  /\ given.cut <= Len(FullBytes(given))
  /\ frames = <<>>
  /\ data = CutBytes(given)
  /\ pos = 0
  /\ msg = NewBookTicker
  /\ dpc = "loop"
  /\ passes = 0

\* One pass of `while pos < len(data)`.
DecodeField ==
  /\ dpc = "loop" /\ pos < Len(data)
  /\ LET r == ParseField(data, pos, msg)
     IN msg' = r.msg /\ pos' = r.pos
  /\ passes' = passes + 1
  /\ UNCHANGED << programVars, frames, data, dpc, given >>

\* The loop ends: return True.
DecodeReturn ==
  /\ dpc = "loop" /\ pos >= Len(data)
  /\ dpc' = "true"
  /\ UNCHANGED << programVars, frames, data, pos, msg, passes, given >>

\* The book-ticker program receives a frame cut short and then the whole
\* frame.
TickerInit ==
  /\ entry = "run_bookticker"
  /\ Receiving
  /\ given \in TickerInputs
  /\ given.cut <= Len(FullFrame(given))
  /\ frames = << SubSeq(FullFrame(given), 1, given.cut), FullFrame(given) >>
  /\ data = <<>>
  /\ pos = 0
  /\ msg = NewBookTicker
  /\ dpc = "off"
  /\ passes = 0

\* _on_message -> _parse_protobuf_message of the book-ticker streamer, up to
\* the decoding of the payload: a frame whose decoding raises, or one with
\* no book-ticker payload, gives None and the callback returns.
Receive ==
  /\ given.mode = "ticker"
  /\ mpc = "run" /\ ipc = "idle" /\ is_connected /\ dpc = "off"
  /\ frames # <<>>
  /\ LET w == WrapperParse(Head(frames))
     IN IF w.ok /\ w.has_payload
        THEN /\ data' = w.payload
             /\ pos' = 0
             /\ msg' = NewBookTicker
             /\ dpc' = "loop"
             /\ passes' = 0
             /\ UNCHANGED frames
        ELSE /\ frames' = Tail(frames)
             /\ UNCHANGED << data, pos, msg, dpc, passes >>
  /\ UNCHANGED << programVars, given >>

\* The rest of _parse_protobuf_message and of _on_message once the payload
\* is decoded: the four texts become numbers (a text float() refuses raises,
\* which gives None), and the record, if validation lets it through, is
\* routed.
TickerParsed ==
  /\ given.mode = "ticker"
  /\ mpc = "run" /\ ipc = "idle" /\ dpc = "true"
  /\ LET w  == WrapperParse(Head(frames))
         bp == FloatOrZero(msg.bidPrice)
         bq == FloatOrZero(msg.bidQuantity)
         ap == FloatOrZero(msg.askPrice)
         aq == FloatOrZero(msg.askQuantity)
     IN IF bp.ok /\ bq.ok /\ ap.ok /\ aq.ok
        THEN Handle([symbol |-> w.symbol,
                     ticker |-> [bidPrice |-> bp.val, bidQuantity |-> bq.val,
                                 askPrice |-> ap.val, askQuantity |-> aq.val]])
        ELSE UNCHANGED << ingestVars, dropped >>
  /\ frames' = Tail(frames)
  /\ dpc' = "off"
  /\ UNCHANGED << entry, mpc, apc, fpc, fidx, is_running, is_connected,
                  buffers, buffer_locks, totals, csv_files, save_due, nextId,
                  log, failures, failed_ids, shutdown_passes,
                  data, pos, msg, passes, given, sessionVars, wrote >>

\* The trade program receives one trade frame.
TradesInit ==
  /\ entry = "run_multi"
  /\ Receiving
  /\ given \in TradeInputs
  /\ frames = << <<>> >>
  /\ data = <<>>
  /\ pos = 0
  /\ msg = NewBookTicker
  /\ dpc = "off"
  /\ passes = 0

RECURSIVE FloatDeals(_, _)
\* The deals whose price and quantity float() accepts, as numbers; a deal
\* that raises ValueError is skipped (`continue`).
FloatDeals(ds, i) ==
  IF i > Len(ds) THEN <<>>
  ELSE LET p == Float(ds[i].price)
           q == Float(ds[i].quantity)
       IN (IF p.ok /\ q.ok
           THEN << [price |-> p.val, quantity |-> q.val,
                    tradeType |-> ds[i].tradeType] >>
           ELSE <<>>) \o FloatDeals(ds, i + 1)

\* _on_message -> _parse_protobuf_message of the trade streamer on the
\* wrapper of the frame, and the routing of the trades it returns.
TradesParsed ==
  /\ given.mode = "trades"
  /\ mpc = "run" /\ ipc = "idle" /\ is_connected
  /\ frames # <<>>
  /\ Handle([symbol |-> SymbolText(given.symbol),
             deals |-> FloatDeals(given.deals, 1)])
  /\ frames' = Tail(frames)
  /\ UNCHANGED << entry, mpc, apc, fpc, fidx, is_running, is_connected,
                  buffers, buffer_locks, totals, csv_files, save_due, nextId,
                  log, failures, failed_ids, shutdown_passes,
                  data, pos, msg, dpc, passes, given, sessionVars, wrote >>

\* Ctrl+C once every frame has been handled.
Interrupt ==
  /\ frames = <<>> /\ ipc = "idle" /\ dpc = "off"
  /\ RunForeverEnds("KeyboardInterrupt")

FrameInit == DecoderInit \/ TickerInit \/ TradesInit

FrameNext ==
  \/ DecodeField
  \/ DecodeReturn
  \/ Receive
  \/ TickerParsed
  \/ TradesParsed
  \/ IngestAcquire
  \/ ProcessTrade
  \/ IngestRelease
  \/ Interrupt
  \/ Disconnect
  \/ FlushLock("main")
  \/ SinkWriteOk("main")
  \/ AfterConnect

FrameSpec == FrameInit /\ [][FrameNext]_vars

\* ------------------------------------------------------------ properties
IdsOf(rows) == [i \in 1..Len(rows) |-> rows[i].id]

Count(rows, id) == Cardinality({i \in 1..Len(rows) : rows[i].id = id})

InBuffer(s, id) == \E i \in 1..Len(buffers[s]) : buffers[s][i].id = id

\* C1: for each instrument, as long as every sink write has succeeded, the
\* persisted rows followed by the live buffer are exactly the appended
\* records, each once, in append order.
C1_ExactlyOnceInOrder ==
  failures = 0 =>
    \A s \in Symbols : IdsOf(csv_files[s]) \o IdsOf(buffers[s]) = IdsOf(log[s])

\* C1's case: appends interleaved with a flush of the same instrument, part
\* of the records persisted and a later one still buffered, no write failed.
C1_Witness ==
  /\ failures = 0
  /\ \E s \in Symbols : Len(csv_files[s]) >= 1 /\ Len(buffers[s]) >= 1

\* C2: when the process has exited and no sink write has failed, no
\* instrument buffer still holds a record (a final flush ran before exit).
C2_FlushedAtExit ==
  (mpc = "exited" /\ failures = 0) => \A s \in Symbols : buffers[s] = <<>>

\* C3: a record that was in a batch whose sink write failed is either still
\* in its instrument's buffer or, once flushed, in the persisted output
\* exactly once.
C3_FailedBatchOnce ==
  \A s \in Symbols : \A i \in 1..Len(log[s]) :
    log[s][i].id \in failed_ids =>
      \/ InBuffer(s, log[s][i].id)
      \/ Count(csv_files[s], log[s][i].id) = 1

\* C4: for every instrument the lifetime counter equals the number of rows
\* persisted so far plus the number of records in its buffer.
C4_CounterAccounts ==
  \A s \in Symbols : totals[s] = Len(csv_files[s]) + Len(buffers[s])

\* C5: every record in instrument X's buffer and every row persisted to X's
\* file carries symbol X.
C5_PartitionBySymbol ==
  \A s \in Symbols :
    /\ \A i \in 1..Len(buffers[s]) : buffers[s][i].symbol = s
    /\ \A i \in 1..Len(csv_files[s]) : RowSymbol(csv_files[s][i]) = s

\* C5's case: records of two instruments were routed, one is buffered and
\* one persisted.
C5_Witness ==
  /\ Len(buffers[symbols[2]]) >= 1
  /\ Len(csv_files[symbols[1]]) >= 1

\* C6: every record ever appended to a buffer passed validation and has a
\* configured symbol, and the lifetime counters count exactly the appended
\* records: a rejected or unroutable record changes no buffer and no counter.
C6_OnlyValidRoutable ==
  \A s \in Symbols :
    /\ totals[s] = Len(log[s])
    /\ \A i \in 1..Len(log[s]) :
         LET r == log[s][i]
         IN /\ r.symbol \in Symbols
            /\ IF UsesTickers(entry)
               THEN /\ r.bid_price > 0 /\ r.bid_quantity > 0
                    /\ r.ask_price > 0 /\ r.ask_quantity > 0
               ELSE /\ r.price > 0 /\ r.quantity > 0
                    /\ r.price # r.quantity
                    /\ (r.price - r.quantity > Eps \/ r.quantity - r.price > Eps)

\* C6's case: a frame with a rejected or unroutable record has been handled
\* by the trade streamer, and an accepted record is buffered.
C6_Witness ==
  /\ ~UsesTickers(entry)
  /\ dropped
  /\ ipc = "idle"
  /\ \E s \in Symbols : Len(buffers[s]) >= 1

\* C7: the rows of an instrument's persisted output are in the order in
\* which their records were appended.
C7_PersistedInAppendOrder ==
  \A s \in Symbols : \A i, j \in 1..Len(csv_files[s]) :
    i < j => csv_files[s][i].id <= csv_files[s][j].id

\* C8: an append that waits for its instrument's guard waits only because a
\* flush is working on that same instrument.
C8_NoCrossBlocking ==
  (ipc = "lock" /\ ~ENABLED IngestAcquire) =>
    \E f \in Flushers : fpc[f] = "write" /\ symbols[fidx[f]] = isym

\* C8's case: the ingest path holds B's guard and has appended a record for
\* B while the auto-save flush holds A's guard inside its sink call.
C8_Witness ==
  /\ ipc = "append" /\ isym = symbols[2]
  /\ Len(buffers[symbols[2]]) >= 1 /\ pending = <<>>
  /\ fpc["auto"] = "write" /\ symbols[fidx["auto"]] = symbols[1]
  /\ buffer_locks[symbols[1]] = "auto"
  /\ buffer_locks[symbols[2]] = "ingest"

\* C9: in mexc_multi_streamer.main a shutdown stops the ingest path first,
\* then runs one final flush pass (not more), and the process exits only
\* after that pass has returned.
C9_ShutdownOnce ==
  entry = "multi_main" =>
    /\ mpc \notin {"init", "run"} => ipc = "stopped"
    /\ shutdown_passes <= 1
    /\ mpc = "exited" => fpc["main"] = "none"

\* C10: a flush cycle does not end while an instrument it has not reached
\* holds a record: the sink is invoked for every non-empty instrument,
\* whatever happened to the instruments before it.
C10_EveryNonEmptyOffered ==
  [][\A f \in Flushers :
       (fpc[f] # "none" /\ fpc'[f] = "none") =>
         \A i \in (fidx[f] + 1)..Len(symbols) : buffers[symbols[i]] = <<>>]_vars

\* C11: after a sink write has failed, no lock is left held by a flush path
\* that is not inside a sink call, the auto-save thread is still in its loop
\* while is_running holds and can start its next check, and the ingest path
\* can still take a frame and take the lock of any instrument that is not
\* being written at that moment.
C11_FailureDoesNotStop ==
  failures > 0 =>
    /\ \A s \in Symbols : \A f \in Flushers :
         buffer_locks[s] = f => (fpc[f] = "write" /\ symbols[fidx[f]] = s)
    /\ (is_running /\ Alive) => apc \in {"sleep", "saving"}
    /\ (Alive /\ apc = "sleep") => ENABLED AutoWake
    /\ (mpc = "run" /\ ipc = "idle" /\ is_connected /\ nextId <= MaxRecords)
         => ENABLED OnMessage
    /\ (mpc = "run" /\ ipc = "lock"
          /\ ~\E f \in Flushers : fpc[f] = "write" /\ symbols[fidx[f]] = isym)
         => ENABLED IngestAcquire

\* C11's case: a batch of an instrument failed, a record of that instrument
\* was appended after the failure, and a later cycle of the auto-save thread
\* (is_running still holds) has persisted it.
C11_Witness ==
  /\ is_running /\ failures > 0
  /\ \E s \in Symbols : \E i, j \in 1..Len(log[s]) :
       /\ i < j
       /\ log[s][i].id \in failed_ids
       /\ log[s][j].id \notin failed_ids
       /\ Count(csv_files[s], log[s][j].id) >= 1

\* C12: a flush cycle calls the sink only for an instrument whose buffer is
\* non-empty, a sink call that succeeds appends the instrument's whole
\* buffer, and after a sink call the cycle moves on to a later instrument of
\* self.symbols and never back, so no instrument gets two calls in a cycle.
C12_OncePerCycleWholeBatch ==
  [][\A f \in Flushers :
       LET s == symbols[fidx[f]]
       IN /\ (fpc[f] # "write" /\ fpc'[f] = "write")
               => (fidx'[f] = fidx[f] /\ buffers[s] # <<>>)
          /\ (fpc[f] = "write" /\ fpc'[f] # "write" /\ failures' = failures)
               => csv_files'[s] = csv_files[s] \o CsvRows(entry, buffers[s])
          /\ (fpc[f] # "none" /\ fpc'[f] # "none") => fidx'[f] >= fidx[f]
          /\ (fpc[f] = "write" /\ fpc'[f] \notin {"write", "none"})
               => fidx'[f] > fidx[f]]_vars

\* C12's case: one cycle has written the first instrument's batch and is
\* inside the sink call for the second instrument.
C12_Witness ==
  /\ failures = 0
  /\ fpc["auto"] = "write" /\ fidx["auto"] = 2
  /\ csv_files[symbols[1]] # <<>> /\ buffers[symbols[1]] = <<>>
  /\ buffers[symbols[2]] # <<>>

\* The number of the field of the whole message in which the cut falls
\* (0 when the cut is at the end of a field).
CutField(g) ==
  IF g.cut \in FieldEnds(g.vals, g.order) THEN 0
  ELSE LET n == CHOOSE k \in 1..Len(g.order) :
                  /\ Len(TickerBytes(g.vals, SubSeq(g.order, 1, k))) > g.cut
                  /\ Len(TickerBytes(g.vals, SubSeq(g.order, 1, k - 1))) < g.cut
       IN g.order[n]

\* C14: the position ParseFromString tracks never exceeds the length of the
\* frame, and it does not return success for a frame that ends inside a
\* varint or inside a length-delimited payload.
C14_TruncationReported ==
  given.mode = "decoder" =>
    /\ pos <= Len(data)
    /\ dpc = "true" => CutField(given) \in {0, 7}

\* C16: for a whole well-formed message carrying four texts in fields 1..4,
\* ParseFromString consumes the message to its end and yields exactly the
\* four texts.
C16_RoundTrip ==
  (given.mode = "decoder" /\ given.cut = Len(FullBytes(given)) /\ dpc = "true") =>
    /\ pos = Len(data)
    /\ msg = [bidPrice |-> given.vals[1], bidQuantity |-> given.vals[2],
              askPrice |-> given.vals[3], askQuantity |-> given.vals[4]]

\* C16's case: a text whose length needs a two-byte varint was decoded from a
\* whole message that also carries an unknown field.
C16_Witness ==
  /\ given.mode = "decoder" /\ dpc = "true"
  /\ given.cut = Len(FullBytes(given))
  /\ given.order = << 1, 6, 2, 3, 4 >>
  /\ Len(given.vals[1]) >= 128 /\ msg.bidPrice = given.vals[1]
  /\ msg.askQuantity = << 49 >>

\* The symbol text the frames of an input carry.
GivenSymbol == SymbolText(given.symbol)

\* The four texts of a book-ticker input are numbers, all above zero.
GivenTickerValid ==
  \A i \in 1..4 :
    /\ \E k \in 1..Len(given.order) : given.order[k] = i
    /\ Float(given.vals[i]).ok /\ Float(given.vals[i]).val > 0

\* The texts of a deal are numbers above zero that differ by more than 0.001.
DealAcceptable(d) ==
  LET p == Float(d.price)
      q == Float(d.quantity)
  IN /\ p.ok /\ q.ok /\ p.val > 0 /\ q.val > 0
     /\ (p.val - q.val > Eps \/ q.val - p.val > Eps)

GivenHasValidRecord ==
  IF given.mode = "ticker" THEN GivenTickerValid
  ELSE \E i \in 1..Len(given.deals) : DealAcceptable(given.deals[i])

\* Every frame of the input has been handled by _on_message.
Handled ==
  /\ given.mode \in {"ticker", "trades"}
  /\ mpc = "run" /\ frames = <<>> /\ ipc = "idle" /\ dpc = "off"

\* No record has been appended and no counter has moved.
Untouched ==
  \A s \in Symbols : buffers[s] = <<>> /\ totals[s] = 0 /\ log[s] = <<>>

\* C13: once the frames are handled, a valid record whose symbol is
\* configured after uppercasing is in that instrument's buffer, whatever the
\* letter case in the frame, and a record whose uppercased symbol is not
\* configured has changed nothing.
C13_RoutesUppercased ==
  Handled =>
    /\ (Upper(GivenSymbol) \in Symbols /\ GivenHasValidRecord)
         => buffers[Upper(GivenSymbol)] # <<>>
    /\ Upper(GivenSymbol) \notin Symbols => Untouched

\* The end of the last of the symbol and payload fields of the whole frame.
NeededEnd(g) ==
  LET k == CHOOSE i \in 1..Len(g.eorder) :
             /\ g.eorder[i] \in {"symbol", "payload"}
             /\ \A j \in 1..Len(g.eorder) : g.eorder[j] \in {"symbol", "payload"} => j <= i
  IN Len(EnvelopeBytes(SubSeq(g.eorder, 1, k), g.symbol, FullBytes(g)))

\* What handling the cut frame and then the whole frame must leave when the
\* cut frame counts as truncated: nothing while and after the cut frame is
\* handled, with the ingest path idle and running; and in the end exactly
\* the record of the whole frame, if it is valid and its symbol configured.
CutFrameIgnored ==
  /\ (Len(frames) = 2 \/ (Len(frames) = 1 /\ dpc = "off"))
       => (Untouched /\ ipc = "idle" /\ mpc = "run")
  /\ Handled =>
       IF GivenTickerValid /\ GivenSymbol \in Symbols
       THEN /\ \A s \in Symbols \ {GivenSymbol} : log[s] = <<>>
            /\ Len(buffers[GivenSymbol]) = 1
            /\ totals[GivenSymbol] = 1
            /\ LET r == buffers[GivenSymbol][1]
               IN /\ r.bid_price = Float(given.vals[1]).val
                  /\ r.bid_quantity = Float(given.vals[2]).val
                  /\ r.ask_price = Float(given.vals[3]).val
                  /\ r.ask_quantity = Float(given.vals[4]).val
       ELSE Untouched

\* C15 as stated: every truncation of a valid book-ticker frame at a byte
\* boundary appends nothing and leaves the ingest path running, and the
\* whole frame delivered next is buffered as if it had come alone.
C15_TruncationIgnored ==
  (given.mode = "ticker" /\ given.cut < Len(FullFrame(given))) => CutFrameIgnored

\* C15 amended: the same for every truncation that removes at least one byte
\* of the symbol field or of the payload field.
C15_CutIntoSymbolOrPayloadIgnored ==
  (given.mode = "ticker" /\ given.cut < NeededEnd(given)) => CutFrameIgnored

\* C15's case: a valid frame for a configured symbol was cut inside its
\* payload, the cut frame was handled, and the whole frame delivered after
\* it is in the buffer.
C15_Witness ==
  /\ Handled /\ given.mode = "ticker"
  /\ GivenTickerValid /\ GivenSymbol = "A"
  /\ given.eorder = << "symbol", "sendTime", "payload" >>
  /\ given.cut = Len(FullFrame(given)) - 3
  /\ Len(buffers["A"]) = 1

RECURSIVE ExpectedTrades(_, _)
\* The (price, quantity) pairs of the acceptable deals, in frame order.
ExpectedTrades(ds, i) ==
  IF i > Len(ds) THEN <<>>
  ELSE (IF DealAcceptable(ds[i])
        THEN << << Float(ds[i].price).val, Float(ds[i].quantity).val >> >>
        ELSE <<>>) \o ExpectedTrades(ds, i + 1)

\* C17: the records a trade frame for a configured symbol leaves in the
\* buffer are exactly its deals with price > 0, quantity > 0 and
\* |price - quantity| > 0.001, in frame order; every other deal (equal price
\* and quantity, a difference of 0.0005, a non-positive or unreadable number)
\* is never buffered.
C17_TradeAcceptedIff ==
  (Handled /\ given.mode = "trades" /\ GivenSymbol \in Symbols) =>
    LET b == buffers[GivenSymbol]
    IN [i \in 1..Len(b) |-> << b[i].price, b[i].quantity >>]
         = ExpectedTrades(given.deals, 1)

\* C17's case: a frame with the deals 5.0005 x 5.0 and 5.0011 x 5.0 was
\* handled; only the second is buffered.
C17_Witness ==
  /\ Handled /\ given.mode = "trades" /\ GivenSymbol = "A"
  /\ Len(given.deals) = 2
  /\ given.deals[1].price = << 53, 46, 48, 48, 48, 53 >>
  /\ given.deals[2].price = << 53, 46, 48, 48, 49, 49 >>
  /\ Len(buffers["A"]) = 1 /\ buffers["A"][1].price = 50011

\* C18: a book-ticker frame for a configured symbol is buffered if and only
\* if its four texts are numbers above zero (an empty text counts as 0); a
\* rejected snapshot leaves every buffer and counter as it was, and every
\* buffered record carries the four numbers of its frame.
C18_TickerAcceptedIff ==
  (Handled /\ given.mode = "ticker" /\ GivenSymbol \in Symbols) =>
    IF GivenTickerValid
    THEN /\ Len(log[GivenSymbol]) >= 1
         /\ \A i \in 1..Len(log[GivenSymbol]) :
              LET r == log[GivenSymbol][i]
              IN /\ r.bid_price = Float(given.vals[1]).val /\ r.bid_price > 0
                 /\ r.bid_quantity = Float(given.vals[2]).val /\ r.bid_quantity > 0
                 /\ r.ask_price = Float(given.vals[3]).val /\ r.ask_price > 0
                 /\ r.ask_quantity = Float(given.vals[4]).val /\ r.ask_quantity > 0
    ELSE Untouched

\* C18's case: the whole frame with an empty bidQuantity was handled twice
\* for a configured symbol and nothing was buffered.
C18_Witness ==
  /\ Handled /\ given.mode = "ticker" /\ GivenSymbol = "A"
  /\ given.vals[2] = <<>> /\ given.cut = Len(FullFrame(given))
  /\ Untouched

\* C19: every buffered trade record and every persisted trade row is
\* labelled "BUY" when its trade_type is 1 and "SELL" for any other value.
C19_TradeTypeLabel ==
  ~UsesTickers(entry) =>
    \A s \in Symbols :
      /\ \A i \in 1..Len(buffers[s]) :
           \/ buffers[s][i].trade_type = 1 /\ buffers[s][i].trade_type_str = "BUY"
           \/ buffers[s][i].trade_type # 1 /\ buffers[s][i].trade_type_str = "SELL"
      /\ \A i \in 1..Len(csv_files[s]) :
           \/ csv_files[s][i].cells[4] = 1 /\ csv_files[s][i].cells[5] = "BUY"
           \/ csv_files[s][i].cells[4] # 1 /\ csv_files[s][i].cells[5] = "SELL"

\* C19's case: a BUY (type 1) and a deal of type 0 were buffered and then
\* persisted by the final flush.
C19_Witness ==
  /\ given.mode = "trades"
  /\ Len(csv_files["A"]) = 2
  /\ csv_files["A"][1].cells[4] = 1 /\ csv_files["A"][1].cells[5] = "BUY"
  /\ csv_files["A"][2].cells[4] = 0 /\ csv_files["A"][2].cells[5] = "SELL"

\* C20: every buffered ticker record has spread = ask_price - bid_price and
\* spread_percent = spread * 100 / bid_price (bid 100, ask 101: spread 1,
\* spread_percent 1), and a spread or spread_percent of 0 only when
\* ask_price equals bid_price.
C20_SpreadOfRecord ==
  UsesTickers(entry) =>
    \A s \in Symbols : \A i \in 1..Len(log[s]) :
      LET r == log[s][i]
      IN /\ r.spread = r.ask_price - r.bid_price
         /\ r.spread_percent.num = r.spread * 100
         /\ r.spread_percent.den = r.bid_price
         /\ (r.bid_price = 1000000 /\ r.ask_price = 1010000)
              => (r.spread = 10000 /\ r.spread_percent.num = r.spread_percent.den)
         /\ (r.spread = 0 \/ r.spread_percent.num = 0) => r.ask_price = r.bid_price

\* C20's case: the snapshot bid 100.0, ask 101.0 is buffered with spread 1
\* and spread_percent 1.
C20_Witness ==
  /\ given.mode = "ticker"
  /\ Len(buffers["A"]) >= 1
  /\ buffers["A"][1].bid_price = 1000000 /\ buffers["A"][1].ask_price = 1010000
  /\ buffers["A"][1].spread = 10000
  /\ buffers["A"][1].spread_percent = [num |-> 1000000, den |-> 1000000]

\* C22: the flush path has released an instrument's guard before it is
\* inside the sink call for it, and no append waits on the guard of an
\* instrument while a flush path is inside the sink call for that instrument.
C22_GuardOnlyForSwap ==
  \A f \in Flushers :
    fpc[f] = "write" =>
      /\ buffer_locks[LockOf(symbols[fidx[f]])] # f
      /\ ~(ipc = "lock" /\ isym = symbols[fidx[f]])

\* The threads that take locks.
Holders == {"ingest"} \cup Flushers

\* C28: no thread holds more than one lock; a lock is held only by a thread
\* that is inside the with block of that lock (so a block left by its end or
\* by an exception has released it); and the ingest path and a flush path
\* never wait for a lock the other holds.
C28_OneLockAlwaysReleased ==
  /\ \A h \in Holders : Cardinality({s \in Symbols : buffer_locks[LockOf(s)] = h}) <= 1
  /\ \A s \in Symbols :
       /\ buffer_locks[LockOf(s)] = "ingest" => (ipc = "append" /\ isym = s)
       /\ \A f \in Flushers :
            buffer_locks[LockOf(s)] = f => (fpc[f] = "write" /\ symbols[fidx[f]] = s)
  /\ \A f \in Flushers :
       ~(/\ ipc = "lock" /\ buffer_locks[LockOf(isym)] = f
         /\ fpc[f] = "lock" /\ buffer_locks[LockOf(symbols[fidx[f]])] = "ingest")
  /\ (ipc = "lock" /\ \A f \in Flushers : fpc[f] # "write") => ENABLED IngestAcquire

\* C28's case: a sink write of the second instrument raised, its batch is
\* still buffered, the ingest path then took that instrument's lock, and the
\* next flush cycle holds the lock of the first instrument.
C28_Witness ==
  /\ failures > 0
  /\ ipc = "append" /\ isym = symbols[2] /\ buffer_locks[symbols[2]] = "ingest"
  /\ \E i \in 1..Len(buffers[symbols[2]]) : buffers[symbols[2]][i].id \in failed_ids
  /\ buffer_locks[symbols[1]] = "auto"

\* C23: while a whole well-formed message is decoded, the position
\* ParseFromString holds between two fields is the end of a field (or the
\* start of the message): every field is consumed to its last byte and no
\* further, whatever its number and wire type.
C23_FieldsConsumedByWireType ==
  given.mode = "wire" => pos \in FieldEnds(given.vals, given.order)

\* The fields numbered 1..4 of an order.
KnownOnly(order) == SelectSeq(order, LAMBDA n : n \in 1..4)

\* C24: a whole book-ticker message with unknown fields inserted at field
\* boundaries is decoded to its end, its position is at a field boundary
\* after every pass, and the four texts it yields are those the message
\* yields without the inserted fields.
C24_UnknownFieldsIgnored ==
  given.mode = "insert" =>
    /\ pos \in FieldEnds(given.vals, given.order)
    /\ dpc = "true" =>
         /\ pos = Len(data)
         /\ msg = ParseFrom(TickerBytes(given.vals, KnownOnly(given.order)), 0,
                            NewBookTicker)
         /\ msg.bidPrice = given.vals[1] /\ msg.askQuantity = given.vals[4]

\* C24's case: a message with a 64-bit unknown field before field 1 and a
\* length-delimited unknown field with a two-byte key between fields 2 and 3
\* has been decoded.
C24_Witness ==
  /\ given.mode = "insert" /\ dpc = "true"
  /\ given.order = << 8, 1, 2, 100, 3, 4 >>
  /\ msg.bidPrice = << 49, 48, 48, 46, 48 >>
  /\ msg.askPrice = << 49, 48, 49, 46, 48 >>

\* C25: every pass of the while loop of ParseFromString moves the position
\* forward, and the loop makes at most len(data) passes, whatever the bytes.
C25_DecodeTerminates ==
  /\ [](passes <= Len(data))
  /\ [][passes' = passes + 1 => pos' > pos]_vars

\* C25's case: a frame of a key with wire type 3 followed by a varint whose
\* continuation bit never clears has been decoded in two passes.
C25_Witness ==
  /\ given.mode = "raw" /\ dpc = "true"
  /\ data = << 43, 255, 255 >>
  /\ passes = 2 /\ pos = 3

\* C21: once the connection has closed while the streamer was running
\* (run_forever has returned, is_running still holds), the client is
\* eventually connected again with run_forever delivering frames.
C21_Reconnects ==
  (mpc = "after_connect" /\ is_running /\ ~is_connected)
    ~> (mpc = "run" /\ is_connected)

\* The message is one the claim calls a control message: a JSON object with
\* both 'code' and 'msg', or with 'msg' equal to 'PONG'.
IsControl(m) ==
  m.json = "object" /\ ((m.code /\ m.msg # "absent") \/ m.msg = "PONG")

\* C26: from the delivery of a textual control message to the return of
\* _on_message, the callback never enters _parse_protobuf_message and no
\* buffer, counter or persisted row changes.
C26_ControlRoutedAway ==
  [][((ipc' = "json" /\ IsControl(message')) \/ (ipc = "json" /\ IsControl(message)))
       => /\ ipc' \in {"json", "idle", "stopped"}
          /\ UNCHANGED << buffers, totals, csv_files, log, buffer_locks >>]_vars

\* C26's case: a control message has been routed away while a record
\* was buffered, and the record is still buffered and counted.
C26_Witness ==
  /\ text_outcome = "return" /\ ipc = "idle" /\ mpc = "run"
  /\ Len(buffers[symbols[1]]) = 1 /\ totals[symbols[1]] = 1

\* C30: while the program runs with is_running and is_connected both set,
\* the ping thread is in its loop.
C30_PingAlive ==
  (mpc = "run" /\ is_running /\ is_connected) => ppc \in {"test", "sleep"}

\* C27: no record is written by both of two flush passes that run at the
\* same time, and every appended record is in its buffer or in the file.
C27_ExactlyOnePass ==
  /\ wrote["auto"] \cap wrote["main"] = {}
  /\ \A s \in Symbols : \A i \in 1..Len(log[s]) :
       InBuffer(s, log[s][i].id) \/ Count(csv_files[s], log[s][i].id) >= 1

\* C29: while run_forever keeps running, every buffered record eventually
\* leaves its buffer for the file; the auto-save thread starts a flush cycle
\* only when save_interval has elapsed since last_save_time and a record is
\* buffered; a step in which a sink write fails leaves last_save_time alone,
\* so that the cycle is due again at the next wake-up.
C29_PeriodicFlushLive ==
  /\ \A id \in 1..MaxRecords :
       ((\E s \in Symbols : InBuffer(s, id)) /\ mpc = "run")
         ~> ((\E s \in Symbols : ~InBuffer(s, id) /\ Count(csv_files[s], id) >= 1)
               \/ mpc # "run")
  /\ [][(apc = "sleep" /\ apc' = "saving") => (save_due /\ TotalBuffered(1) > 0)]_vars
  /\ [][failures' > failures => save_due' = save_due]_vars

\* C29's case: a record whose batch failed in one cycle of the auto-save
\* thread has left its buffer for the file in a later cycle, with
\* run_forever still running.
C29_Witness ==
  /\ mpc = "run" /\ is_running /\ fpc["auto"] = "none"
  /\ \E s \in Symbols : \E i \in 1..Len(log[s]) :
       /\ log[s][i].id \in failed_ids
       /\ ~InBuffer(s, log[s][i].id)
       /\ Count(csv_files[s], log[s][i].id) >= 1

====
